---- MODULE Spec2Model ----
(***************************************************************************)
(* Model of modules/healthcare/utils/update_collection.py: a script that   *)
(* loads a Postman collection from a fixed path, patches the request       *)
(* bodies of four named requests in a recursive walk, inserts a fixed      *)
(* folder at the head of the top-level item list and writes the document   *)
(* back to the same path.                                                  *)
(*                                                                         *)
(* JSON values are tagged records; a Python dict is an ordered sequence of *)
(* <<key, value>> pairs (insertion order, as json.load builds it and       *)
(* json.dump emits it).  The file on disk is a sequence of lexical tokens; *)
(* indentation is not represented.                                         *)
(***************************************************************************)
EXTENDS Integers, Sequences, FiniteSets, TLC

(***************************************************************************)
(* JSON values as json.load produces them.  Numbers and booleans are not   *)
(* represented: under "in" and iteration they raise as None does.          *)
(***************************************************************************)
Str(s) == [t |-> "str", s |-> s]

Null == [t |-> "null"]

Arr(a) == [t |-> "arr", a |-> a]

Obj(kv) == [t |-> "obj", kv |-> kv]

\* key in d, for a dict d
Has(d, k) == \E i \in 1..Len(d.kv) : d.kv[i][1] = k

\* d[k], for a dict d that has k
Get(d, k) == d.kv[CHOOSE i \in 1..Len(d.kv) : d.kv[i][1] = k][2]

\* d[k] = v: an existing key keeps its position, a new key goes last
Put(d, k, v) ==
    IF Has(d, k)
    THEN Obj([i \in 1..Len(d.kv) |-> IF d.kv[i][1] = k THEN <<k, v>> ELSE d.kv[i]])
    ELSE Obj(Append(d.kv, <<k, v>>))

(***************************************************************************)
(* json.dump: the token stream of a value.                                 *)
(***************************************************************************)
P(c) == <<"p", c>>

RECURSIVE Serialize(_)
RECURSIVE SerializeElems(_, _)
RECURSIVE SerializeMembers(_, _)
Serialize(v) ==
    CASE v.t = "str"  -> << <<"s", v.s>> >>
      [] v.t = "null" -> << <<"n", "null">> >>
      [] v.t = "arr"  -> <<P("[")>> \o SerializeElems(v.a, 1) \o <<P("]")>>
      [] v.t = "obj"  -> <<P("{")>> \o SerializeMembers(v.kv, 1) \o <<P("}")>>

SerializeElems(a, i) ==
    IF i > Len(a) THEN <<>>
    ELSE (IF i > 1 THEN <<P(",")>> ELSE <<>>)
         \o Serialize(a[i]) \o SerializeElems(a, i + 1)

SerializeMembers(kv, i) ==
    IF i > Len(kv) THEN <<>>
    ELSE (IF i > 1 THEN <<P(",")>> ELSE <<>>)
         \o << <<"s", kv[i][1]>>, P(":") >> \o Serialize(kv[i][2])
         \o SerializeMembers(kv, i + 1)

(***************************************************************************)
(* json.load: recursive descent over the token stream.  A result is        *)
(* [ok, v, next]; ok = FALSE is json.JSONDecodeError.                      *)
(***************************************************************************)
Bad == [ok |-> FALSE, v |-> Null, next |-> 0]

Tok(toks, i) == IF i <= Len(toks) THEN toks[i] ELSE <<"eof", "">>

RECURSIVE ParseValue(_, _)
RECURSIVE ParseElems(_, _, _)
RECURSIVE ParseMembers(_, _, _)
ParseValue(toks, i) ==
    LET tk == Tok(toks, i) IN
    CASE tk[1] = "s"  -> [ok |-> TRUE, v |-> Str(tk[2]), next |-> i + 1]
      [] tk[1] = "n"  -> [ok |-> TRUE, v |-> Null, next |-> i + 1]
      [] tk = P("[")  -> IF Tok(toks, i + 1) = P("]")
                         THEN [ok |-> TRUE, v |-> Arr(<<>>), next |-> i + 2]
                         ELSE ParseElems(toks, i + 1, <<>>)
      [] tk = P("{")  -> IF Tok(toks, i + 1) = P("}")
                         THEN [ok |-> TRUE, v |-> Obj(<<>>), next |-> i + 2]
                         ELSE ParseMembers(toks, i + 1, Obj(<<>>))
      [] OTHER        -> Bad

\* at the start of an element, acc holds the elements read so far
ParseElems(toks, i, acc) ==
    LET e == ParseValue(toks, i) IN
    IF ~e.ok THEN Bad
    ELSE IF Tok(toks, e.next) = P(",")
         THEN ParseElems(toks, e.next + 1, Append(acc, e.v))
    ELSE IF Tok(toks, e.next) = P("]")
         THEN [ok |-> TRUE, v |-> Arr(Append(acc, e.v)), next |-> e.next + 1]
    ELSE Bad

\* at the start of a member, acc is the dict read so far
ParseMembers(toks, i, acc) ==
    IF Tok(toks, i)[1] # "s" \/ Tok(toks, i + 1) # P(":") THEN Bad
    ELSE LET e == ParseValue(toks, i + 2) IN
         IF ~e.ok THEN Bad
         ELSE IF Tok(toks, e.next) = P(",")
              THEN ParseMembers(toks, e.next + 1, Put(acc, Tok(toks, i)[2], e.v))
         ELSE IF Tok(toks, e.next) = P("}")
              THEN [ok |-> TRUE, v |-> Put(acc, Tok(toks, i)[2], e.v),
                    next |-> e.next + 1]
         ELSE Bad

\* the whole text is one value, with nothing after it
Parse(toks) ==
    LET r == ParseValue(toks, 1) IN
    IF r.ok /\ r.next = Len(toks) + 1 THEN r ELSE Bad

(***************************************************************************)
(* The literals of the script.                                             *)
(***************************************************************************)
RegisterSuccess == "Register User - Success"

RegisterDuplicate == "Register User - Duplicate ID"

LoginSuccess == "Login - Success"

LoginInvalid == "Login - Invalid Credentials"

RawRegisterSuccess ==
    "{\n  \"id\": \"test.user\",\n  \"password\": \"TestPass123!\",\n  \"name\": \"Test User\"\n}"

RawRegisterDuplicate ==
    "{\n  \"id\": \"john.doe\",\n  \"password\": \"password123\",\n  \"name\": \"John Doe Duplicate\"\n}"

DescRegisterDuplicate ==
    "Try to register with duplicate user ID (john.doe already exists in seed data)"

RawLoginSuccess == "{\n  \"id\": \"john.doe\",\n  \"password\": \"password123\"\n}"

RawLoginInvalid == "{\n  \"id\": \"john.doe\",\n  \"password\": \"WrongPassword\"\n}"

StatusLines ==
    << "Postman collection updated successfully!",
       "Added 'Seeded Data Tests' folder with 8 pre-configured tests",
       "Updated login credentials to match seeded passwords",
       "Register User now uses test.user instead of john.doe" >>

(***************************************************************************)
(* seeded_data_folder, the dict literal of lines 43-243.                   *)
(***************************************************************************)
StrList(ss) == Arr([i \in 1..Len(ss) |-> Str(ss[i])])

Header(k, v) == Obj(<< <<"key", Str(k)>>, <<"value", Str(v)>> >>)

Url(raw, path) ==
    Obj(<< <<"raw", Str(raw)>>,
           <<"host", StrList(<<"{{base_url}}">>)>>,
           <<"path", StrList(path)>> >>)

RawBody(raw) == Obj(<< <<"mode", Str("raw")>>, <<"raw", Str(raw)>> >>)

TokenScript ==
    Arr(<< Obj(<< <<"listen", Str("test")>>,
                  <<"script",
                    Obj(<< <<"exec",
                             StrList(<< "var jsonData = pm.response.json();",
                                        "if (jsonData.data && jsonData.data.token) {",
                                        "    pm.environment.set(\"auth_token\", jsonData.data.token);",
                                        "}" >>)>>,
                           <<"type", Str("text/javascript")>> >>)>> >>) >>)

\* the two login entries: they alone carry an event script
SeededLogin(name, raw, description) ==
    Obj(<< <<"name", Str(name)>>,
           <<"event", TokenScript>>,
           <<"request",
             Obj(<< <<"method", Str("POST")>>,
                    <<"header", Arr(<<Header("Content-Type", "application/json")>>)>>,
                    <<"body", RawBody(raw)>>,
                    <<"url", Url("{{base_url}}/api/users/_login",
                                 <<"api", "users", "_login">>)>>,
                    <<"description", Str(description)>> >>)>>,
           <<"response", Arr(<<>>)>> >>)

\* the five GET entries: no body
SeededGet(name, urlRaw, path, description) ==
    Obj(<< <<"name", Str(name)>>,
           <<"request",
             Obj(<< <<"method", Str("GET")>>,
                    <<"header", Arr(<<Header("Authorization", "{{auth_token}}")>>)>>,
                    <<"url", Url(urlRaw, path)>>,
                    <<"description", Str(description)>> >>)>>,
           <<"response", Arr(<<>>)>> >>)

SeededUpdate ==
    Obj(<< <<"name", Str("Update Seeded Contact - Alice Johnson")>>,
           <<"request",
             Obj(<< <<"method", Str("PUT")>>,
                    <<"header", Arr(<< Header("Authorization", "{{auth_token}}"),
                                       Header("Content-Type", "application/json") >>)>>,
                    <<"body", RawBody("{\n  \"first_name\": \"Alice Updated\",\n  \"last_name\": \"Johnson Updated\",\n  \"email\": \"alice.updated@example.com\",\n  \"phone\": \"+1-555-9999\"\n}")>>,
                    <<"url", Url("{{base_url}}/api/contacts/550e8400-e29b-41d4-a716-446655440001",
                                 <<"api", "contacts", "550e8400-e29b-41d4-a716-446655440001">>)>>,
                    <<"description", Str("Update Alice Johnson's information")>> >>)>>,
           <<"response", Arr(<<>>)>> >>)

seeded_data_folder ==
    Obj(<< <<"name", Str("Seeded Data Tests")>>,
           <<"item",
             Arr(<< SeededLogin("Login as john.doe",
                                "{\n  \"id\": \"john.doe\",\n  \"password\": \"password123\"\n}",
                                "Login with seeded user john.doe"),
                    SeededLogin("Login as jane.smith",
                                "{\n  \"id\": \"jane.smith\",\n  \"password\": \"SecurePass456!\"\n}",
                                "Login with seeded user jane.smith"),
                    SeededGet("Get Seeded Contact - Alice Johnson",
                              "{{base_url}}/api/contacts/550e8400-e29b-41d4-a716-446655440001",
                              <<"api", "contacts", "550e8400-e29b-41d4-a716-446655440001">>,
                              "Get Alice Johnson (seeded contact for john.doe)"),
                    SeededGet("Get Seeded Contact - Bob Williams",
                              "{{base_url}}/api/contacts/550e8400-e29b-41d4-a716-446655440002",
                              <<"api", "contacts", "550e8400-e29b-41d4-a716-446655440002">>,
                              "Get Bob Williams (seeded contact for john.doe)"),
                    SeededGet("Get Seeded Contact - Charlie Brown",
                              "{{base_url}}/api/contacts/550e8400-e29b-41d4-a716-446655440003",
                              <<"api", "contacts", "550e8400-e29b-41d4-a716-446655440003">>,
                              "Get Charlie Brown (seeded contact for john.doe)"),
                    SeededGet("List Addresses for Alice Johnson",
                              "{{base_url}}/api/contacts/550e8400-e29b-41d4-a716-446655440001/addresses",
                              <<"api", "contacts", "550e8400-e29b-41d4-a716-446655440001", "addresses">>,
                              "List all addresses for Alice Johnson (should return 2 addresses)"),
                    SeededGet("Get Seeded Address - Alice's NY Address",
                              "{{base_url}}/api/contacts/550e8400-e29b-41d4-a716-446655440001/addresses/660e8400-e29b-41d4-a716-446655440001",
                              <<"api", "contacts", "550e8400-e29b-41d4-a716-446655440001",
                                "addresses", "660e8400-e29b-41d4-a716-446655440001">>,
                              "Get Alice's NY address (123 Main Street, New York)"),
                    SeededUpdate >>)>> >>)

(***************************************************************************)
(* Python's "in", subscript and iteration on the values json.load yields.  *)
(***************************************************************************)
\* the key literals of the script that occur inside the str values of the
\* inputs below (str.__contains__ is a substring test)
Substrings(s) ==
    CASE s = "{{base_url}}/api/body" -> {"body"}
      [] s = "see request notes"    -> {"request"}
      [] OTHER                      -> {}

\* "k in v" raises TypeError on None, otherwise is Contains(v, k)
Iterable(v) == v.t # "null"

Contains(v, k) ==
    CASE v.t = "obj" -> Has(v, k)
      [] v.t = "arr" -> \E i \in 1..Len(v.a) : v.a[i] = Str(k)
      [] v.t = "str" -> k \in Substrings(v.s)

\* v[k] with a str k: only a dict that has k answers
SubscriptError(v, k) ==
    IF v.t = "obj" THEN (IF Has(v, k) THEN "" ELSE "KeyError") ELSE "TypeError"

Ok(v) == [v |-> v, err |-> ""]

Raise(v, e) == [v |-> v, err |-> e]

(***************************************************************************)
(* update_requests, lines 8-37.  The walk mutates in place: a result is    *)
(* the value as the walk left it and the exception that ended it, if any.  *)
(***************************************************************************)
\* SetRaw that never touches the description
SetRaw_NoDescription(request, raw, description) ==
    IF ~Iterable(request) THEN Raise(request, "TypeError")
    ELSE IF ~Contains(request, "body") THEN Ok(request)
    ELSE IF request.t # "obj" THEN Raise(request, "TypeError")
    ELSE LET body == Get(request, "body") IN
         IF ~Iterable(body) THEN Raise(request, "TypeError")
         ELSE IF ~Contains(body, "raw") THEN Ok(request)
         ELSE IF body.t # "obj" THEN Raise(request, "TypeError")
         ELSE Ok(Put(request, "body", Put(body, "raw", Str(raw))))

\* SetRaw without the two membership tests: the body and its raw field are
\* created where they are missing
SetRaw_Unguarded(request, raw, description) ==
    IF request.t # "obj" THEN Raise(request, "TypeError")
    ELSE LET body == IF Has(request, "body") THEN Get(request, "body") ELSE Obj(<<>>) IN
         IF body.t # "obj" THEN Raise(request, "TypeError")
         ELSE LET patched == Put(request, "body", Put(body, "raw", Str(raw))) IN
              IF description = "" THEN Ok(patched)
              ELSE Ok(Put(patched, "description", Str(description)))

\* lines 20-21, 25-27, 31-32, 36-37: the guarded assignment of one branch
SetRaw(request, raw, description) ==
    IF ~Iterable(request) THEN Raise(request, "TypeError")
    ELSE IF ~Contains(request, "body") THEN Ok(request)
    ELSE IF request.t # "obj" THEN Raise(request, "TypeError")
    ELSE LET body == Get(request, "body") IN
         IF ~Iterable(body) THEN Raise(request, "TypeError")
         ELSE IF ~Contains(body, "raw") THEN Ok(request)
         ELSE IF body.t # "obj" THEN Raise(request, "TypeError")
         ELSE LET patched == Put(request, "body", Put(body, "raw", Str(raw))) IN
              IF description = "" THEN Ok(patched)
              ELSE Ok(Put(patched, "description", Str(description)))

\* the chain without its last branch
PatchRequest_ThreeNames(name, request) ==
    IF name = Str(RegisterSuccess)
    THEN SetRaw(request, RawRegisterSuccess, "")
    ELSE IF name = Str(RegisterDuplicate)
    THEN SetRaw(request, RawRegisterDuplicate, DescRegisterDuplicate)
    ELSE IF name = Str(LoginSuccess)
    THEN SetRaw(request, RawLoginSuccess, "")
    ELSE Ok(request)

\* the chain with its last elif written as else
PatchRequest_Else(name, request) ==
    IF name = Str(RegisterSuccess)
    THEN SetRaw(request, RawRegisterSuccess, "")
    ELSE IF name = Str(RegisterDuplicate)
    THEN SetRaw(request, RawRegisterDuplicate, DescRegisterDuplicate)
    ELSE IF name = Str(LoginSuccess)
    THEN SetRaw(request, RawLoginSuccess, "")
    ELSE SetRaw(request, RawLoginInvalid, "")

\* lines 19-37: the if/elif chain on the name
PatchRequest(name, request) ==
    IF name = Str(RegisterSuccess)
    THEN SetRaw(request, RawRegisterSuccess, "")
    ELSE IF name = Str(RegisterDuplicate)
    THEN SetRaw(request, RawRegisterDuplicate, DescRegisterDuplicate)
    ELSE IF name = Str(LoginSuccess)
    THEN SetRaw(request, RawLoginSuccess, "")
    ELSE IF name = Str(LoginInvalid)
    THEN SetRaw(request, RawLoginInvalid, "")
    ELSE Ok(request)

RECURSIVE update_requests(_)
RECURSIVE UpdateItem(_)
RECURSIVE UpdateFrom(_, _)
\* lines 10-37: the body of the loop for one item
UpdateItem(item) ==
    IF ~Iterable(item) THEN Raise(item, "TypeError")
    ELSE IF Contains(item, "item")
    THEN IF item.t # "obj" THEN Raise(item, "TypeError")
         ELSE LET r == update_requests(Get(item, "item")) IN
              [v |-> Put(item, "item", r.v), err |-> r.err]
    ELSE IF Contains(item, "request")
    THEN IF item.t # "obj" THEN Raise(item, "TypeError")
         ELSE LET request == Get(item, "request")
                  name == IF Has(item, "name") THEN Get(item, "name") ELSE Str("")
                  r == PatchRequest(name, request)
              IN  [v |-> Put(item, "request", r.v), err |-> r.err]
    ELSE Ok(item)

\* line 9: the loop over a list, from index i on
UpdateFrom(a, i) ==
    IF i > Len(a) THEN Ok(Arr(a))
    ELSE LET r == UpdateItem(a[i]) IN
         IF r.err # "" THEN Raise(Arr([a EXCEPT ![i] = r.v]), r.err)
         ELSE UpdateFrom([a EXCEPT ![i] = r.v], i + 1)

\* line 9: iterating a dict yields its keys, a str its characters (no
\* character contains a key literal), None raises
update_requests(items) ==
    CASE items.t = "arr"  -> UpdateFrom(items.a, 1)
      [] items.t = "obj"  ->
            Raise(items, UpdateFrom([i \in 1..Len(items.kv) |-> Str(items.kv[i][1])], 1).err)
      [] items.t = "str"  -> Ok(items)
      [] items.t = "null" -> Raise(items, "TypeError")

\* list.append in place of list.insert(0, ...)
InsertFolder_Append(items) == Arr(Append(items.a, seeded_data_folder))

\* the folder is inserted only where the list has none of its name
InsertFolder_Once(items) ==
    IF \E i \in 1..Len(items.a) :
          /\ items.a[i].t = "obj"
          /\ Has(items.a[i], "name")
          /\ Get(items.a[i], "name") = Get(seeded_data_folder, "name")
    THEN items
    ELSE Arr(<<seeded_data_folder>> \o items.a)

\* items[0] = seeded_data_folder in place of the insertion
InsertFolder_Overwrite(items) ==
    Arr(<<seeded_data_folder>> \o (IF items.a = <<>> THEN <<>> ELSE Tail(items.a)))

\* line 246: list.insert(0, seeded_data_folder)
InsertFolder(items) == Arr(<<seeded_data_folder>> \o items.a)

(***************************************************************************)
(* The collections the file can hold.                                      *)
(***************************************************************************)
\* nodes (folders and requests) of a collection handed to the walk (SpecWalk)
MaxItems == 2

\* nodes of the collection in the file before the first run (Spec)
MaxFileItems == 1

\* invocations of the script on the same file
MaxRuns == 2

\* tokens that reach the file in one write
BufferTokens == 500

OldRaw == "{\n  \"id\": \"john.doe\",\n  \"password\": \"SecurePass123!\"\n}"

OldDescription == "Register a new user"

InputNames ==
    {RegisterSuccess, RegisterDuplicate, LoginSuccess, LoginInvalid, "Health Check"}

InputRequests ==
    { Obj(<< <<"method", Str("POST")>>, <<"body", RawBody(OldRaw)>> >>),
      Obj(<< <<"method", Str("POST")>>, <<"body", RawBody(OldRaw)>>,
             <<"description", Str(OldDescription)>> >>),
      Obj(<< <<"method", Str("GET")>>, <<"description", Str(OldDescription)>> >>),
      Obj(<< <<"method", Str("POST")>>,
             <<"body", Obj(<< <<"mode", Str("formdata")>> >>)>> >>) }

RequestItem(name, request) ==
    Obj(<< <<"name", Str(name)>>, <<"request", request>>, <<"response", Arr(<<>>)>> >>)

Folder(name, items) == Obj(<< <<"name", Str(name)>>, <<"item", Arr(items)>> >>)

Requests == {RequestItem(n, r) : n \in InputNames, r \in InputRequests}

\* valid JSON that is not an Item of the data model
OddItems ==
    { Null,
      Str("note"),
      Str("see request notes"),
      Obj(<< <<"request", Obj(<< <<"method", Str("POST")>>, <<"body", RawBody(OldRaw)>> >>)>> >>),
      RequestItem(LoginSuccess, Obj(<< <<"method", Str("POST")>>, <<"body", Null>> >>)),
      RequestItem(LoginSuccess, Str("{{base_url}}/api/body")),
      RequestItem(LoginInvalid, Str("{{base_url}}/api/users/_login")),
      Obj(<< <<"name", Str("Auth")>>, <<"item", Null>> >>),
      Obj(<< <<"name", Str(LoginSuccess)>>, <<"item", Arr(<<>>)>>,
             <<"request", Obj(<< <<"method", Str("POST")>>, <<"body", RawBody(OldRaw)>> >>)>> >>) }

RECURSIVE ItemsOfSize(_)
RECURSIVE ListsOfSize(_)
\* the items made of exactly n nodes
ItemsOfSize(n) ==
    IF n = 1 THEN Requests \cup OddItems \cup {Folder("Auth", <<>>)}
    ELSE {Folder("Auth", l) : l \in ListsOfSize(n - 1)}

\* the item lists whose items have n nodes in all
ListsOfSize(n) ==
    IF n = 0 THEN {<<>>}
    ELSE UNION {{<<x>> \o l : x \in ItemsOfSize(k), l \in ListsOfSize(n - k)} : k \in 1..n}

Collection(items) ==
    Obj(<< <<"info", Obj(<< <<"name", Str("Evero Healthcare API")>> >>)>>,
           <<"item", Arr(items)>> >>)

\* the collections of at most n nodes, and two documents without an item list
Collections(n) ==
    {Collection(l) : l \in UNION {ListsOfSize(k) : k \in 0..n}}
    \cup {Obj(<< <<"info", Obj(<< <<"name", Str("Evero Healthcare API")>> >>)>> >>),
          Arr(<<>>)}

\* the length of the top-level item list, 0 where there is none
TopCount(c) ==
    IF c.t = "obj" /\ Has(c, "item") /\ Get(c, "item").t = "arr"
    THEN Len(Get(c, "item").a) ELSE 0

\* a file cut short, and an empty one
BrokenTexts == {<<>>, <<P("{"), <<"s", "info">>, P(":")>>}

(***************************************************************************)
(* The run of the script, and reruns on the file it left.                  *)
(***************************************************************************)
VARIABLES
    file,        \* the text of the collection file
    fileStatus,  \* "ok", "missing" or "unreadable"
    pc,          \* where the run is
    collection,  \* the variable collection
    out,         \* text json.dump has yet to write
    stdout,      \* the lines printed by this run
    err,         \* the exception that ended the run
    runs,        \* runs started
    successes,   \* runs that reached the last line
    before,      \* history: collection as loaded by this run
    startFile,   \* history: file when this run started
    count0       \* history: top-level items before the first run

vars == <<file, fileStatus, pc, collection, out, stdout, err, runs, successes,
          before, startFile, count0>>

Init ==
    /\ \/ /\ fileStatus = "ok"
          /\ \/ \E c \in Collections(MaxFileItems) :
                   file = Serialize(c) /\ count0 = TopCount(c)
             \/ file \in BrokenTexts /\ count0 = 0
       \/ /\ fileStatus = "missing"
          /\ file = <<>>
          /\ count0 = 0
       \/ /\ fileStatus = "unreadable"
          /\ file = Serialize(Collection(<<>>))
          /\ count0 = 0
    /\ pc = "start"
    /\ collection = Null
    /\ out = <<>>
    /\ stdout = <<>>
    /\ err = ""
    /\ runs = 1
    /\ successes = 0
    /\ before = Null
    /\ startFile = file

Fail(e) ==
    /\ pc' = "error"
    /\ err' = e

\* lines 4-5: as ReadCollection, but a file that does not parse is taken
\* for an empty collection
ReadCollection_Fallback ==
    /\ pc = "start"
    /\ IF fileStatus = "missing" THEN Fail("FileNotFoundError") /\ UNCHANGED <<collection, before>>
       ELSE IF fileStatus = "unreadable" THEN Fail("PermissionError") /\ UNCHANGED <<collection, before>>
       ELSE LET r == Parse(file)
                c == IF r.ok THEN r.v ELSE Collection(<<>>)
            IN  /\ collection' = c
                /\ before' = c
                /\ pc' = "loaded"
                /\ err' = err
    /\ UNCHANGED <<file, fileStatus, out, stdout, runs, successes, startFile, count0>>

\* lines 4-5: open(..., 'r') and json.load
ReadCollection ==
    /\ pc = "start"
    /\ IF fileStatus = "missing" THEN Fail("FileNotFoundError") /\ UNCHANGED <<collection, before>>
       ELSE IF fileStatus = "unreadable" THEN Fail("PermissionError") /\ UNCHANGED <<collection, before>>
       ELSE LET r == Parse(file) IN
            IF ~r.ok THEN Fail("JSONDecodeError") /\ UNCHANGED <<collection, before>>
            ELSE /\ collection' = r.v
                 /\ before' = r.v
                 /\ pc' = "loaded"
                 /\ err' = err
    /\ UNCHANGED <<file, fileStatus, out, stdout, runs, successes, startFile, count0>>

\* line 40: update_requests(collection['item'])
UpdateAll ==
    /\ pc = "loaded"
    /\ IF SubscriptError(collection, "item") # ""
       THEN Fail(SubscriptError(collection, "item")) /\ UNCHANGED collection
       ELSE LET r == update_requests(Get(collection, "item")) IN
            /\ collection' = Put(collection, "item", r.v)
            /\ IF r.err # "" THEN Fail(r.err) ELSE pc' = "walked" /\ err' = err
    /\ UNCHANGED <<file, fileStatus, out, stdout, runs, successes, before, startFile, count0>>

\* line 246: collection['item'].insert(0, seeded_data_folder)
InsertSeeded ==
    /\ pc = "walked"
    /\ IF Get(collection, "item").t # "arr"
       THEN Fail("AttributeError") /\ UNCHANGED collection
       ELSE /\ collection' = Put(collection, "item", InsertFolder(Get(collection, "item")))
            /\ pc' = "inserted"
            /\ err' = err
    /\ UNCHANGED <<file, fileStatus, out, stdout, runs, successes, before, startFile, count0>>

\* line 249: open(..., 'w') empties the file
OpenForWrite ==
    /\ pc = "inserted"
    /\ file' = <<>>
    /\ out' = Serialize(collection)
    /\ pc' = "writing"
    /\ UNCHANGED <<fileStatus, collection, stdout, err, runs, successes, before, startFile, count0>>

\* line 250: json.dump, one buffer of text reaching the file
WriteBuffer ==
    /\ pc = "writing"
    /\ out # <<>>
    /\ LET n == IF Len(out) < BufferTokens THEN Len(out) ELSE BufferTokens IN
       /\ file' = file \o SubSeq(out, 1, n)
       /\ out' = SubSeq(out, n + 1, Len(out))
    /\ UNCHANGED <<fileStatus, pc, collection, stdout, err, runs, successes, before, startFile, count0>>

\* line 250: a write raises OSError (device full, quota), or the run is
\* interrupted while text is still to be written
WriteFails ==
    /\ pc = "writing"
    /\ out # <<>>
    /\ Fail("OSError")
    /\ UNCHANGED <<file, fileStatus, collection, out, stdout, runs, successes, before, startFile, count0>>

\* line 250: the with block ends
CloseFile ==
    /\ pc = "writing"
    /\ out = <<>>
    /\ pc' = "written"
    /\ UNCHANGED <<file, fileStatus, collection, out, stdout, err, runs, successes, before, startFile, count0>>

\* lines 252-255: the four prints
PrintStatus ==
    /\ pc = "written"
    /\ stdout' = Append(stdout, StatusLines[Len(stdout) + 1])
    /\ IF Len(stdout') = Len(StatusLines)
       THEN pc' = "done" /\ successes' = successes + 1
       ELSE UNCHANGED <<pc, successes>>
    /\ UNCHANGED <<file, fileStatus, collection, out, err, runs, before, startFile, count0>>

\* the script is invoked again on the file as the last run left it
Rerun ==
    /\ pc \in {"done", "error"}
    /\ runs < MaxRuns
    /\ runs' = runs + 1
    /\ pc' = "start"
    /\ collection' = Null
    /\ out' = <<>>
    /\ stdout' = <<>>
    /\ err' = ""
    /\ before' = Null
    /\ startFile' = file
    /\ UNCHANGED <<file, fileStatus, successes, count0>>

Next ==
    \/ ReadCollection
    \/ UpdateAll
    \/ InsertSeeded
    \/ OpenForWrite
    \/ WriteBuffer
    \/ WriteFails
    \/ CloseFile
    \/ PrintStatus
    \/ Rerun

Spec == Init /\ [][Next]_vars

(***************************************************************************)
(* The transformation alone (lines 40 and 246) on every collection of at   *)
(* most MaxItems nodes, from the state json.load leaves.                   *)
(***************************************************************************)
InitWalk ==
    /\ fileStatus = "ok"
    /\ collection \in Collections(MaxItems)
    /\ before = collection
    /\ file = Serialize(collection)
    /\ startFile = file
    /\ count0 = TopCount(collection)
    /\ pc = "loaded"
    /\ out = <<>>
    /\ stdout = <<>>
    /\ err = ""
    /\ runs = 1
    /\ successes = 0

NextWalk ==
    \/ UpdateAll
    \/ InsertSeeded

SpecWalk == InitWalk /\ [][NextWalk]_vars

(***************************************************************************)
(* Vocabulary of the properties.                                           *)
(***************************************************************************)
Items(c) == Get(c, "item").a

\* a folder is an item with a nested list, a request an item with a request
\* descriptor and no nested list (lines 10 and 13 test in that order)
IsFolder(item) == item.t = "obj" /\ Has(item, "item")

IsRequest(item) == item.t = "obj" /\ ~Has(item, "item") /\ Has(item, "request")

FourNames == {RegisterSuccess, RegisterDuplicate, LoginSuccess, LoginInvalid}

Named(item, n) == Has(item, "name") /\ Get(item, "name") = Str(n)

HasFourName(item) == \E n \in FourNames : Named(item, n)

\* the request has a body with a raw field
HasRaw(request) ==
    /\ request.t = "obj"
    /\ Has(request, "body")
    /\ Get(request, "body").t = "obj"
    /\ Has(Get(request, "body"), "raw")

RawOf(item) == Get(Get(Get(item, "request"), "body"), "raw")

ExpectedRaw(item) ==
    CASE Named(item, RegisterSuccess)   -> Str(RawRegisterSuccess)
      [] Named(item, RegisterDuplicate) -> Str(RawRegisterDuplicate)
      [] Named(item, LoginSuccess)      -> Str(RawLoginSuccess)
      [] Named(item, LoginInvalid)      -> Str(RawLoginInvalid)

\* the pairs <<b, a>> of an item of the list bl and the item at the same
\* place of the list al, at every depth
RECURSIVE Pairs(_, _)
Pairs(bl, al) ==
    UNION { {<<bl[i], al[i]>>} \cup
            (IF /\ IsFolder(bl[i]) /\ Get(bl[i], "item").t = "arr"
                /\ IsFolder(al[i]) /\ Get(al[i], "item").t = "arr"
             THEN Pairs(Items(bl[i]), Items(al[i])) ELSE {})
          : i \in 1..(IF Len(bl) < Len(al) THEN Len(bl) ELSE Len(al)) }

\* the items of the loaded document paired with what the transformation
\* made of them: the original item i is looked for at i + 1
Transformed == Pairs(Items(before), Tail(Items(collection)))

\* the items of a list, at every depth
RECURSIVE AllItems(_)
AllItems(l) ==
    UNION { {l[i]} \cup (IF IsFolder(l[i]) /\ Get(l[i], "item").t = "arr"
                         THEN AllItems(Items(l[i])) ELSE {})
          : i \in 1..Len(l) }

\* the item with the raw text of its request body blanked
BlankRaw(item) ==
    LET request == Get(item, "request") IN
    Put(item, "request",
        Put(request, "body", Put(Get(request, "body"), "raw", Str(""))))

\* the item without the description of its request
DropDescription(item) ==
    LET request == Get(item, "request") IN
    Put(item, "request",
        Obj(SelectSeq(request.kv, LAMBDA m : m[1] # "description")))

RECURSIVE Preserved(_, _)
RECURSIVE PreservedItem(_, _)
\* al is bl, item for item, up to the patched fields
Preserved(bl, al) ==
    /\ Len(al) = Len(bl)
    /\ \A i \in 1..Len(bl) : PreservedItem(bl[i], al[i])

PreservedItem(b, a) ==
    IF IsFolder(b) /\ Get(b, "item").t = "arr"
    THEN /\ IsFolder(a)
         /\ Get(a, "item").t = "arr"
         /\ Put(a, "item", Get(b, "item")) = b
         /\ Preserved(Items(b), Items(a))
    ELSE IF IsRequest(b) /\ HasFourName(b) /\ HasRaw(Get(b, "request"))
    THEN /\ IsRequest(a)
         /\ HasRaw(Get(a, "request"))
         /\ IF Named(b, RegisterDuplicate)
            THEN DropDescription(BlankRaw(a)) = DropDescription(BlankRaw(b))
            ELSE BlankRaw(a) = BlankRaw(b)
    ELSE a = b

ReadErrors == {"FileNotFoundError", "PermissionError", "JSONDecodeError"}

\* the file this run started on cannot be loaded
BadInput == fileStatus # "ok" \/ ~Parse(startFile).ok

(***************************************************************************)
(* Properties of the transformation (SpecWalk).                            *)
(***************************************************************************)
\* C1: every request item, at any depth, whose name is one of the four
\* literals and whose request has a body with a raw field has, after the
\* transformation, the fixed payload of its name as raw text.
C1_FourNamesPatched ==
    pc = "inserted" =>
        \A p \in Transformed :
            (IsRequest(p[1]) /\ HasFourName(p[1]) /\ HasRaw(Get(p[1], "request")))
            => /\ IsRequest(p[2])
               /\ HasRaw(Get(p[2], "request"))
               /\ RawOf(p[2]) = ExpectedRaw(p[1])

\* a matching request with a raw body inside a folder has been transformed
C1_Witness ==
    /\ pc = "inserted"
    /\ \E i \in 1..Len(Items(before)) :
          /\ IsFolder(Items(before)[i])
          /\ \E x \in AllItems(Items(Items(before)[i])) :
                /\ IsRequest(x) /\ HasFourName(x) /\ HasRaw(Get(x, "request"))
                /\ RawOf(x) # ExpectedRaw(x)

\* C2 as stated: every request named 'Register User - Duplicate ID' has,
\* after the transformation, the John Doe Duplicate payload as raw text and
\* the duplicate-user text as description.
C2_EveryDuplicatePatched ==
    pc = "inserted" =>
        \A p \in Transformed :
            (IsRequest(p[1]) /\ Named(p[1], RegisterDuplicate))
            => /\ IsRequest(p[2])
               /\ HasRaw(Get(p[2], "request"))
               /\ RawOf(p[2]) = Str(RawRegisterDuplicate)
               /\ Has(Get(p[2], "request"), "description")
               /\ Get(Get(p[2], "request"), "description") = Str(DescRegisterDuplicate)

\* C2 amended: every request named 'Register User - Duplicate ID' whose
\* request has a body with a raw field has, after the transformation, the
\* John Doe Duplicate payload as raw text and the duplicate-user text as
\* description.
C2_DuplicateWithRawPatched ==
    pc = "inserted" =>
        \A p \in Transformed :
            (IsRequest(p[1]) /\ Named(p[1], RegisterDuplicate) /\ HasRaw(Get(p[1], "request")))
            => /\ IsRequest(p[2])
               /\ HasRaw(Get(p[2], "request"))
               /\ RawOf(p[2]) = Str(RawRegisterDuplicate)
               /\ Has(Get(p[2], "request"), "description")
               /\ Get(Get(p[2], "request"), "description") = Str(DescRegisterDuplicate)

\* a Duplicate ID request with a raw body and no description has been
\* transformed
C2_Witness ==
    /\ pc = "inserted"
    /\ \E x \in AllItems(Items(before)) :
          /\ IsRequest(x) /\ Named(x, RegisterDuplicate)
          /\ HasRaw(Get(x, "request"))
          /\ ~Has(Get(x, "request"), "description")

\* C3: a request item whose name is none of the four literals is, after the
\* transformation, exactly the item it was.
C3_OtherNamesUntouched ==
    pc = "inserted" =>
        \A p \in Transformed :
            (IsRequest(p[1]) /\ ~HasFourName(p[1])) => p[2] = p[1]

\* a request of another name, with a raw body and a description, has been
\* transformed
C3_Witness ==
    /\ pc = "inserted"
    /\ \E x \in AllItems(Items(before)) :
          /\ IsRequest(x) /\ Named(x, "Health Check")
          /\ HasRaw(Get(x, "request"))
          /\ Has(Get(x, "request"), "description")

\* C9: a request item whose name is one of the four literals and whose
\* request has no body, or a body without a raw field, is, after the
\* transformation, exactly the item it was.
C9_NoRawUntouched ==
    pc = "inserted" =>
        \A p \in Transformed :
            (IsRequest(p[1]) /\ HasFourName(p[1]) /\ ~HasRaw(Get(p[1], "request")))
            => p[2] = p[1]

\* a Duplicate ID request without a body, and a matching request whose body
\* has no raw field, have been transformed
C9_Witness ==
    /\ pc = "inserted"
    /\ \E x, y \in AllItems(Items(before)) :
          /\ IsRequest(x) /\ Named(x, RegisterDuplicate)
          /\ ~Has(Get(x, "request"), "body")
          /\ IsRequest(y) /\ HasFourName(y)
          /\ Has(Get(y, "request"), "body") /\ ~HasRaw(Get(y, "request"))

\* C10: after the transformation the first top-level item is the folder
\* literal itself, the original item i is at i + 1, every folder has the
\* items it had, in their order and under their names, and an item differs
\* from the original at most in the raw text (and, for Duplicate ID, the
\* description) of a matching request.
C10_StructurePreserved ==
    pc = "inserted" =>
        /\ Items(collection)[1] = seeded_data_folder
        /\ Preserved(Items(before), Tail(Items(collection)))

\* a list of two items, the first a patched request, has been transformed
C10_Witness ==
    /\ pc = "inserted"
    /\ Len(Items(before)) = 2
    /\ IsRequest(Items(before)[1]) /\ HasFourName(Items(before)[1])
    /\ HasRaw(Get(Items(before)[1], "request"))
    /\ Items(collection)[2] # Items(before)[1]

(***************************************************************************)
(* Properties of the run (Spec).                                           *)
(***************************************************************************)
\* C4: when a run has completed, the document in the file has one top-level
\* item more than the document the run loaded, and its first item is named
\* 'Seeded Data Tests' and has eight nested items.
C4_OneFolderInserted ==
    pc = "done" =>
        LET doc == Parse(file) IN
        /\ doc.ok
        /\ Len(Items(doc.v)) = Len(Items(before)) + 1
        /\ IsFolder(Items(doc.v)[1])
        /\ Named(Items(doc.v)[1], "Seeded Data Tests")
        /\ Len(Items(Items(doc.v)[1])) = 8

\* a run on a collection of one item has completed
C4_Witness ==
    /\ pc = "done"
    /\ successes = 1
    /\ Len(Items(before)) = 1

\* C5: when the n-th run in succession has completed, the document in the
\* file has n top-level items more than the original, and its first n items
\* are 'Seeded Data Tests' folders.
C5_OneFolderPerRun ==
    pc = "done" =>
        LET doc == Parse(file) IN
        /\ doc.ok
        /\ successes = runs
        /\ Len(Items(doc.v)) = count0 + successes
        /\ \A i \in 1..successes :
              /\ IsFolder(Items(doc.v)[i])
              /\ Named(Items(doc.v)[i], "Seeded Data Tests")

\* a second run, on the file the first one wrote, has completed
C5_Witness ==
    /\ pc = "done"
    /\ successes = 2
    /\ count0 > 0

\* C6: a run whose input file is missing, unreadable or not valid JSON goes
\* from its start to an error of the read and nowhere else: the file is as
\* it was, nothing is waiting to be written and nothing has been printed.
C6_BadInputNoWrite ==
    (pc # "start" /\ BadInput) =>
        /\ pc = "error"
        /\ err \in ReadErrors
        /\ file = startFile
        /\ out = <<>>
        /\ stdout = <<>>

\* a run has ended on a file that holds text but does not parse
C6_Witness ==
    /\ pc = "error"
    /\ err = "JSONDecodeError"
    /\ file # <<>>

\* C7 as stated: a run fails only by not finding or not being able to read
\* the file, or by the file not being valid JSON (failures of the write
\* aside): the walk of a document that was loaded raises nothing.
C7_OnlyReadErrors ==
    (pc = "error" /\ err # "OSError") => err \in ReadErrors

\* C8 as stated: in every state of a run the file holds the complete
\* document the run started on or the complete transformed document.
C8_NoPartialWrite ==
    \/ file = startFile
    \/ /\ pc \in {"writing", "written", "done", "error"}
       /\ file = Serialize(collection)
====
